---- MODULE Spec2Model ----
(***************************************************************************)
(* Model of fatsecret_backend.py: a Flask proxy in front of the FatSecret  *)
(* API with one process-wide OAuth2 token cache (cached_token,             *)
(* token_expiry) and five endpoints.  A request is a worker thread walking *)
(* through its handler; the steps are cut at the upstream HTTP calls and   *)
(* at the two separate writes of the cache.                                *)
(***************************************************************************)
EXTENDS Integers, Sequences, FiniteSets, TLC

VARIABLES cached_token, token_expiry, now, workers, th

vars == <<cached_token, token_expiry, now, workers, th>>

(***************************************************************************)
(* Bounds of the model.                                                    *)
(***************************************************************************)
\* seconds the clock may advance past a day boundary
MaxSecs == 1
\* whole days the clock may advance
MaxDays == 1

\* timedelta.seconds is the seconds component of a normalised timedelta
SecondsPerDay == 86400

(***************************************************************************)
(* Python values.  None is the empty tuple, a present value a 1-tuple.     *)
(***************************************************************************)
None == <<>>
Some(x) == <<x>>

EmptyDict == [k \in {} |-> ""]
HasKey(d, k) == k \in DOMAIN d
Get(d, k, default) == IF k \in DOMAIN d THEN d[k] ELSE default

\* truthiness of cached_token: None and "" are falsy
Truthy(tok) == tok # None /\ tok[1] # ""

(***************************************************************************)
(* Input domains.                                                          *)
(***************************************************************************)
Endpoints == {"token", "search", "details", "image", "barcode"}
ProxyEndpoints == Endpoints \ {"token"}
PassThroughEndpoints == {"search", "details", "image"}

Tokens == {"tA", "tB", ""}
ExpiresIns == {0, 1, SecondsPerDay + 1}

\* the field a handler requires of its payload
ReqKey(ep) ==
  CASE ep = "search" -> "query"
    [] ep = "details" -> "food_id"
    [] ep = "barcode" -> "barcode"
    [] ep = "image" -> "image"
    [] OTHER -> "none"

\* request.json (request.files for the image endpoint): absent, {}, an object
\* without the required field, with it empty, with it set
NoBody == [present |-> FALSE, obj |-> EmptyDict]
Payloads(ep) ==
  IF ep = "token" THEN {NoBody}
  ELSE {NoBody}
       \cup {[present |-> TRUE, obj |-> o] :
               o \in {EmptyDict, ("page_number" :> "1"),
                      (ReqKey(ep) :> ""), (ReqKey(ep) :> "v")}}

\* responses of the upstream token endpoint: a transport failure, a non-200
\* status (body not JSON, or JSON with error_description, or with error), or a
\* 200 whose body parses or not and holds the two fields or not
TokenBody(has, tok, kind, n) ==
  [has_token |-> has, access_token |-> tok, exp |-> kind, expires_in |-> n]
NoTokenBody == TokenBody(FALSE, "", "missing", 0)
TokenResp(f, s, txt, p, j, e) ==
  [fail |-> f, status |-> s, text |-> txt, parses |-> p, json |-> j, errjson |-> e]
TokenResponses ==
  {TokenResp(TRUE, 0, "", FALSE, NoTokenBody, EmptyDict)}
  \cup {TokenResp(FALSE, 401, "Unauthorized", FALSE, NoTokenBody, EmptyDict)}
  \cup {TokenResp(FALSE, 401, "{...}", TRUE, NoTokenBody, e) :
          e \in {("error_description" :> "bad credentials"),
                 ("error" :> "invalid_client")}}
  \cup {TokenResp(FALSE, 200, "<html>", FALSE, NoTokenBody, EmptyDict)}
  \cup {TokenResp(FALSE, 200, "{...}", TRUE, TokenBody(TRUE, t, "int", n), EmptyDict) :
          t \in Tokens, n \in ExpiresIns}
  \cup {TokenResp(FALSE, 200, "{...}", TRUE, b, EmptyDict) :
          b \in {TokenBody(FALSE, "", "int", 1),
                 TokenBody(TRUE, "tA", "missing", 0),
                 TokenBody(TRUE, "tB", "string", 0)}}
NoTokenResp == TokenResp(FALSE, 0, "", FALSE, NoTokenBody, EmptyDict)

\* responses of the upstream food API
ApiResp(f, s, txt, p, j) ==
  [fail |-> f, status |-> s, text |-> txt, parses |-> p, json |-> j]
NoApiResp == ApiResp(FALSE, 0, "", FALSE, EmptyDict)
FoodJson == [food |-> [food_id |-> "12345"]]
FoodsJson == [foods |-> [total_results |-> "0"]]
ErrObj(c, m) == [code |-> c, message |-> m]
BarcodeJsons ==
  {[food_id |-> [value |-> "999"]],
   [error |-> ErrObj(106, "No item found")],
   [error |-> ErrObj(101, "No item found.")],
   [error |-> ErrObj(2, "Missing required parameter")],
   [food_id |-> [value |-> "999"], error |-> ErrObj(106, "No item found")],
   [foo |-> "bar"]}
ApiJsons(ep) == IF ep = "barcode" THEN BarcodeJsons ELSE {FoodJson, FoodsJson}
ApiResponses(ep) ==
  {ApiResp(TRUE, 0, "", FALSE, EmptyDict),
   ApiResp(FALSE, 401, "Unauthorized", FALSE, EmptyDict),
   ApiResp(FALSE, 503, "{\"error\": \"busy\"}", TRUE, [error |-> "busy"]),
   ApiResp(FALSE, 200, "<html>", FALSE, EmptyDict)}
  \cup {ApiResp(FALSE, 200, "{...}", TRUE, j) : j \in ApiJsons(ep)}

\* response.json() on a body that is not JSON raises json.JSONDecodeError with
\* requests < 2.27 and requests.exceptions.JSONDecodeError, a RequestException
\* too, from 2.27 on
RequestsLibs == {"json", "requests"}

(***************************************************************************)
(* get_fatsecret_token: the pure parts.                                    *)
(***************************************************************************)
Result(s, b) == [status |-> s, body |-> b]
NoResult == Result(0, EmptyDict)

\* line 35 with the comparison turned round
CacheHit_Reversed(tok, exp, t) == Truthy(tok) /\ exp # None /\ t > exp[1]

\* line 35 without the comparison
CacheHit_NoExpiry(tok, exp, t) == Truthy(tok) /\ exp # None

\* line 35: the cache is used when both globals are truthy and now < expiry
CacheHit(tok, exp, t) == Truthy(tok) /\ exp # None /\ t < exp[1]

\* timedelta.seconds: the seconds component, 0 <= seconds < 86400, of the
\* normalised (days, seconds) pair; whole seconds here
TimedeltaSeconds(d) == d % SecondsPerDay

\* lines 36-39
TokenHitResult(tok, exp, t) ==
  Result(200, [access_token |-> tok[1],
               expires_in |-> TimedeltaSeconds(exp[1] - t)])

\* line 58
NewExpiry(t, expires_in) == t + expires_in

\* lines 59-62
TokenOkResult(tok, expires_in) ==
  Result(200, [access_token |-> tok[1], expires_in |-> expires_in])

\* lines 64-72
ErrorDetails(resp) ==
  IF ~resp.parses THEN resp.text
  ELSE IF HasKey(resp.errjson, "error_description")
         THEN resp.errjson["error_description"]
       ELSE IF HasKey(resp.errjson, "error") THEN resp.errjson["error"]
       ELSE resp.text

\* lines 74-77: every non-200 status of the token endpoint is answered 400
TokenHttpErrorResult(resp) ==
  Result(400, [error |-> "FatSecret token request failed: " \o ToString(resp.status),
               details |-> ErrorDetails(resp)])

\* lines 78-83
TokenExceptionResult(e) ==
  Result(500, [error |-> "Exception during token fetch", details |-> e])

\* the exception, if any, lines 53-58 raise on a response; "" when none
TokenException(resp) ==
  IF resp.fail THEN "ConnectionError"
  ELSE IF resp.status # 200 THEN ""
  ELSE IF ~resp.parses THEN "JSONDecodeError"
  ELSE IF ~resp.json.has_token THEN "KeyError: 'access_token'"
  ELSE IF resp.json.exp = "missing" THEN "KeyError: 'expires_in'"
  ELSE IF resp.json.exp # "int" THEN "TypeError"
  ELSE ""

\* line 56 is reached and executed: cached_token is assigned
WritesToken(resp) ==
  ~resp.fail /\ resp.status = 200 /\ resp.parses /\ resp.json.has_token

\* line 58 is reached and executed: token_expiry is assigned
WritesExpiry(resp) == WritesToken(resp) /\ resp.json.exp = "int"

(***************************************************************************)
(* The proxy handlers: the pure parts.                                     *)
(***************************************************************************)
\* `if not data`: None and the empty object are both falsy
Falsy(data) == ~data.present \/ DOMAIN data.obj = {}

\* lines 94-104, 188-198, 360-366: the JSON handlers' validation;
\* NoResult when the request passes
MissingFieldError(ep) ==
  CASE ep = "search" -> "No search query provided"
    [] ep = "details" -> "No food ID provided"
    [] OTHER -> "No barcode provided"
ValidateJson(ep, data) ==
  IF Falsy(data) THEN Result(400, [error |-> "No JSON data received"])
  ELSE IF Get(data.obj, ReqKey(ep), "") = ""
         THEN Result(400, [error |-> MissingFieldError(ep)])
       ELSE NoResult

\* lines 276-285: the image handler's validation
ValidateImage(data) ==
  IF ~HasKey(data.obj, "image") THEN Result(400, [error |-> "No image file provided"])
  ELSE IF data.obj["image"] = "" THEN Result(400, [error |-> "Empty image file"])
  ELSE NoResult

Validate(ep, data) ==
  IF ep = "image" THEN ValidateImage(data) ELSE ValidateJson(ep, data)

\* lines 110, 201, 288, 369 with > for >=
NeedsRefresh_Strict(tok, exp, t) == ~Truthy(tok) \/ exp = None \/ t > exp[1]

\* lines 110, 201, 288, 369
NeedsRefresh(tok, exp, t) == ~Truthy(tok) \/ exp = None \/ t >= exp[1]

\* lines 113-115, 204-206, 291-293: a non-200 result of get_fatsecret_token is
\* returned as it is; lines 371-377: the barcode handler returns its status
\* under a body of its own.  NoResult when the handler goes on
BarcodeTokenFailure(tokres) ==
  Result(tokres.status,
         [error |-> "Failed to refresh token for barcode lookup",
          details |-> Get(tokres.body, "details", "Unknown token error")])
\* lines 114, 205, 292 looking for a 500 only
AfterToken_Only500(ep, tokres) ==
  IF ep = "barcode"
    THEN IF tokres.status # 200 THEN BarcodeTokenFailure(tokres) ELSE NoResult
  ELSE IF tokres.status = 500 THEN tokres ELSE NoResult

AfterToken(ep, tokres) ==
  IF ep = "barcode"
    THEN IF tokres.status # 200 \/ DOMAIN tokres.body = {}
              \/ ~HasKey(tokres.body, "access_token")
           THEN BarcodeTokenFailure(tokres)
         ELSE NoResult
  ELSE IF tokres.status # 200 THEN tokres ELSE NoResult

\* the handlers' words for their upstream request
RequestName(ep) ==
  CASE ep = "search" -> "search request"
    [] ep = "details" -> "food details request"
    [] ep = "image" -> "image recognition request"
    [] OTHER -> "barcode lookup"
ParseFailureName(ep) ==
  CASE ep = "search" -> "response as JSON"
    [] ep = "details" -> "food details response as JSON"
    [] ep = "image" -> "image recognition response as JSON"
    [] OTHER -> "barcode lookup response"

\* the transport failure answered as a bad gateway
ApiTransportResult_502(ep, e) ==
  Result(502, [error |-> "Exception during FatSecret " \o RequestName(ep),
               details |-> e])

\* lines 158-163, 246-251, 332-337, 442-443
ApiTransportResult(ep, e) ==
  Result(500, [error |-> "Exception during FatSecret " \o RequestName(ep),
               details |-> e])

\* the upstream status answered as a 500
ApiStatusResult_500(ep, resp) ==
  Result(500, [error |-> "FatSecret API returned status " \o ToString(resp.status),
               details |-> resp.text])

\* lines 149-153, 237-241, 323-327, 401-405
ApiStatusResult(ep, resp) ==
  Result(resp.status,
         [error |-> (IF ep = "barcode" THEN "FatSecret API (barcode) returned status "
                     ELSE "FatSecret API returned status ") \o ToString(resp.status),
          details |-> resp.text])

\* response.json() failing: caught as a RequestException (lines 158, 246, 332,
\* 442) or as a json.JSONDecodeError (lines 164-171, 252-259, 338-345, 444-445)
ApiParseResult(ep, resp, lib) ==
  IF lib = "requests" THEN ApiTransportResult(ep, "JSONDecodeError")
  ELSE Result(500, [error |-> "Failed to parse FatSecret " \o ParseFailureName(ep),
                    details |-> "JSONDecodeError", response |-> resp.text])

\* lines 172-177, 260-265, 346-351, 446-447
UnexpectedResult(ep, e) ==
  Result(500, [error |-> (IF ep = "barcode" THEN "Unexpected exception during barcode lookup"
                          ELSE "Unexpected exception during FatSecret " \o ep),
               details |-> e])

\* lines 156-157, 244-245, 330-331
PassThroughResult(resp) == Result(200, resp.json)

\* lines 413-440: the barcode handler on a parsed 200 body.  On line 434 the
\* left operand of `or` decides when the code is 106; otherwise
\* error_message.lower().contains(...) is evaluated, and str has no method
\* contains: AttributeError, caught on line 446
BarcodeResult(json) ==
  IF HasKey(json, "food_id") /\ DOMAIN json["food_id"] # {}
       /\ HasKey(json["food_id"], "value")
    THEN IF HasKey(json, "error")
           THEN Result(404, [error |-> "Food not found for this barcode",
                             details |-> json["error"]["message"]])
         ELSE Result(200, [food_id |-> json["food_id"]["value"],
                           food_name |-> "Food Item (Details will be fetched)"])
  ELSE IF HasKey(json, "error")
    THEN IF HasKey(json["error"], "code") /\ json["error"]["code"] = 106
           THEN Result(404, [error |-> "Food not found for this barcode"])
         ELSE UnexpectedResult("barcode", "AttributeError")
  ELSE Result(404, [error |-> "Food not found or unexpected API response."])

\* lines 139-177, 227-265, 306-351, 394-447: the response to the client
MapApiResponse(ep, resp, lib) ==
  IF resp.fail THEN ApiTransportResult(ep, "ConnectionError")
  ELSE IF resp.status # 200 THEN ApiStatusResult(ep, resp)
  ELSE IF ~resp.parses THEN ApiParseResult(ep, resp, lib)
  ELSE IF ep = "barcode" THEN BarcodeResult(resp.json)
  ELSE PassThroughResult(resp)

(***************************************************************************)
(* State.  cached_token and token_expiry are the module's globals (lines   *)
(* 25-26); now is datetime.now() in whole seconds; th[p] is the request    *)
(* worker thread p is handling: where it stands in its handler, what it    *)
(* was sent, what it read and what it did.                                 *)
(***************************************************************************)
Threads == {1, 2}

\* the globals as read by a validity check, and when
Seen(tok, exp, t) == [tok |-> tok, exp |-> exp, at |-> t]
NoSeen == Seen(None, None, -1)

NewRequest(ep, data) ==
  [pc |-> "idle", ep |-> ep, data |-> data, seen |-> NoSeen, calls |-> <<>>,
   tresp |-> NoTokenResp, wroteAt |-> -1, bearer |-> None,
   aresp |-> NoApiResp, out |-> NoResult]
Idle == NewRequest("token", NoBody)

Init ==
  /\ cached_token = None
  /\ token_expiry = None
  /\ now = 0
  /\ workers = {1}
  /\ th = [p \in Threads |-> Idle]

\* the development server answers each request on a thread of its own
InitConc ==
  /\ cached_token = None
  /\ token_expiry = None
  /\ now = 0
  /\ workers = Threads
  /\ th = [p \in Threads |-> Idle]

\* the request ends with response r
Respond(rec, r) == [rec EXCEPT !.pc = "done", !.out = r]

\* get_fatsecret_token returns tokres: to the client when the request is for
\* /fatsecret_token, to the calling handler otherwise
TokenReturn(rec, tokres) ==
  IF rec.ep = "token" THEN Respond(rec, tokres)
  ELSE IF AfterToken(rec.ep, tokres).status # 0
         THEN Respond(rec, AfterToken(rec.ep, tokres))
       ELSE [rec EXCEPT !.pc = "send"]

\* a request arrives: validation, then the handler's validity check
Start(p, eps) ==
  /\ th[p].pc \in {"idle", "done"}
  /\ \E ep \in eps : \E data \in Payloads(ep) :
       LET rec == NewRequest(ep, data) IN
       th' = [th EXCEPT ![p] =
         IF ep = "token" THEN [rec EXCEPT !.pc = "tok_check"]
         ELSE IF Validate(ep, data).status # 0 THEN Respond(rec, Validate(ep, data))
         ELSE [rec EXCEPT !.seen = Seen(cached_token, token_expiry, now),
                          !.pc = IF NeedsRefresh(cached_token, token_expiry, now)
                                   THEN "tok_check" ELSE "send"]]
  /\ UNCHANGED <<cached_token, token_expiry, now, workers>>

\* get_fatsecret_token, line 35, then lines 41-53 up to the request being sent
TokenCheck(p) ==
  /\ th[p].pc = "tok_check"
  /\ th' = [th EXCEPT ![p] =
       IF CacheHit(cached_token, token_expiry, now)
         THEN [@ EXCEPT !.seen = Seen(cached_token, token_expiry, now),
                        !.pc = "tok_hit"]
       ELSE [@ EXCEPT !.seen = Seen(cached_token, token_expiry, now),
                      !.calls = Append(@, "token"),
                      !.pc = "tok_wait"]]
  /\ UNCHANGED <<cached_token, token_expiry, now, workers>>

\* lines 36-39: the globals and the clock are read again
TokenHit(p) ==
  /\ th[p].pc = "tok_hit"
  /\ th' = [th EXCEPT ![p] =
       TokenReturn(@, TokenHitResult(cached_token, token_expiry, now))]
  /\ UNCHANGED <<cached_token, token_expiry, now, workers>>

\* lines 53-57 and 63-83: the token endpoint's response arrives
TokenRecv(p, resps) ==
  /\ th[p].pc = "tok_wait"
  /\ \E resp \in resps :
       /\ cached_token' = IF WritesToken(resp) THEN Some(resp.json.access_token)
                          ELSE cached_token
       /\ th' = [th EXCEPT ![p] =
            IF TokenException(resp) # ""
              THEN TokenReturn([@ EXCEPT !.tresp = resp],
                               TokenExceptionResult(TokenException(resp)))
            ELSE IF resp.status # 200
              THEN TokenReturn([@ EXCEPT !.tresp = resp], TokenHttpErrorResult(resp))
            ELSE [@ EXCEPT !.tresp = resp, !.pc = "tok_write"]]
  /\ UNCHANGED <<token_expiry, now, workers>>

\* lines 58-62
TokenWrite(p) ==
  /\ th[p].pc = "tok_write"
  /\ token_expiry' = Some(NewExpiry(now, th[p].tresp.json.expires_in))
  /\ th' = [th EXCEPT ![p] =
       TokenReturn([@ EXCEPT !.wroteAt = now],
                   TokenOkResult(cached_token, th[p].tresp.json.expires_in))]
  /\ UNCHANGED <<cached_token, now, workers>>

\* lines 123-142, 214-230, 301-316, 383-396: the Authorization header is built
\* from the global and the request is sent
ApiSend(p) ==
  /\ th[p].pc = "send"
  /\ th' = [th EXCEPT ![p] = [@ EXCEPT !.bearer = cached_token,
                                       !.calls = Append(@, "api"),
                                       !.pc = "api_wait"]]
  /\ UNCHANGED <<cached_token, token_expiry, now, workers>>

\* the food API's response arrives and is mapped
ApiRecv(p, resps) ==
  /\ th[p].pc = "api_wait"
  /\ \E resp \in ApiResponses(th[p].ep) \cap resps : \E lib \in RequestsLibs :
       th' = [th EXCEPT ![p] =
         Respond([@ EXCEPT !.aresp = resp], MapApiResponse(th[p].ep, resp, lib))]
  /\ UNCHANGED <<cached_token, token_expiry, now, workers>>

\* the clock advances by a second
TickSecond ==
  /\ now % SecondsPerDay < MaxSecs
  /\ now' = now + 1
  /\ UNCHANGED <<cached_token, token_expiry, workers, th>>

\* the clock advances by a day
TickDay ==
  /\ now \div SecondsPerDay < MaxDays
  /\ now' = now + SecondsPerDay
  /\ UNCHANGED <<cached_token, token_expiry, workers, th>>

AllApiResponses == UNION {ApiResponses(ep) : ep \in ProxyEndpoints}

Next ==
  \/ \E p \in workers : Start(p, Endpoints)
  \/ \E p \in workers : TokenCheck(p)
  \/ \E p \in workers : TokenHit(p)
  \/ \E p \in workers : TokenRecv(p, TokenResponses)
  \/ \E p \in workers : TokenWrite(p)
  \/ \E p \in workers : ApiSend(p)
  \/ \E p \in workers : ApiRecv(p, AllApiResponses)
  \/ TickSecond
  \/ TickDay

\* one request at a time
Spec == Init /\ [][Next]_vars

\* Two requests at a time.  The inputs are narrowed to what the race on the
\* cache needs: the token endpoint and one handler, token responses that are
\* a transport failure or a well-formed 200 with a lifetime of at most a
\* second, one food API response, and a clock that advances by seconds.
ConcEndpoints == {"token", "search"}
ConcTokenResponses ==
  {r \in TokenResponses :
     \/ r.fail
     \/ WritesExpiry(r) /\ r.json.access_token # "" /\ r.json.expires_in <= 1}
ConcApiResponses ==
  {r \in ApiResponses("search") : r.parses /\ r.json = FoodJson}

NextConc ==
  \/ \E p \in workers : Start(p, ConcEndpoints)
  \/ \E p \in workers : TokenCheck(p)
  \/ \E p \in workers : TokenHit(p)
  \/ \E p \in workers : TokenRecv(p, ConcTokenResponses)
  \/ \E p \in workers : TokenWrite(p)
  \/ \E p \in workers : ApiSend(p)
  \/ \E p \in workers : ApiRecv(p, ConcApiResponses)
  \/ TickSecond

SpecConc == InitConc /\ [][NextConc]_vars

(***************************************************************************)
(* Vocabulary of the claims.                                               *)
(***************************************************************************)
\* the cache holds a token and t < expiresAt
HoldsValidToken(tok, exp, t) ==
  /\ tok # None
  /\ tok[1] # ""
  /\ exp # None
  /\ t < exp[1]

\* request r passed its handler's validation and read the cache
Checked(r) == r.seen.at >= 0

\* request r's last validity check found a valid token
SawValid(r) == Checked(r) /\ HoldsValidToken(r.seen.tok, r.seen.exp, r.seen.at)

\* request r's last validity check found the token absent or expired
SawInvalid(r) == Checked(r) /\ ~HoldsValidToken(r.seen.tok, r.seen.exp, r.seen.at)

\* the token endpoint answered r's call with a 200 holding both fields
GotToken(r) ==
  /\ ~r.tresp.fail
  /\ r.tresp.status = 200
  /\ r.tresp.parses
  /\ r.tresp.json.has_token
  /\ r.tresp.json.exp = "int"

\* r's token call failed: a transport failure or a non-200 status
TokenFailed(r) ==
  /\ "token" \in {r.calls[i] : i \in DOMAIN r.calls}
  /\ r.pc \notin {"tok_wait"}
  /\ r.tresp.fail \/ r.tresp.status # 200

Made(r, call) == call \in {r.calls[i] : i \in DOMAIN r.calls}
AtMostOnce(r) ==
  r.calls \in {<<>>, <<"token">>, <<"api">>, <<"token", "api">>}

\* the food API answered r's call
Answered(r) == r.pc = "done" /\ Made(r, "api")

(***************************************************************************)
(* C1.  A request that finds a token in the cache with now < expiresAt     *)
(* makes no call to the token endpoint, leaves cached_token and            *)
(* token_expiry as they were, and the token it sends upstream (a handler)  *)
(* or returns (the token endpoint) is the cached one.                      *)
(***************************************************************************)
C1_ValidTokenReused ==
  \A p \in workers :
    LET r == th[p] IN
    SawValid(r) =>
      /\ ~Made(r, "token")
      /\ cached_token = r.seen.tok
      /\ token_expiry = r.seen.exp
      /\ (r.ep \in ProxyEndpoints /\ Made(r, "api") => r.bearer = r.seen.tok)
      /\ (r.ep = "token" /\ r.pc = "done" =>
            /\ r.out.status = 200
            /\ r.out.body.access_token = r.seen.tok[1])

C1_Witness ==
  \E p \in workers :
    /\ th[p].ep = "details"
    /\ SawValid(th[p])
    /\ th[p].pc = "done"
    /\ th[p].calls = <<"api">>
    /\ th[p].bearer = cached_token
    /\ th[p].out.status = 200

(***************************************************************************)
(* C2.  A valid request to a proxy handler that finds the token absent or  *)
(* expired (now >= expiresAt) makes exactly one token call, before its     *)
(* food API call; once the token endpoint has answered 200 with the two    *)
(* fields the cache holds the returned access_token and                    *)
(* expiresAt = (now at the write) + expires_in.                            *)
(***************************************************************************)
C2_RefreshOnceBeforeUpstream ==
  \A p \in workers :
    LET r == th[p] IN
    (r.ep \in ProxyEndpoints /\ SawInvalid(r)) =>
      /\ r.pc \in {"send", "api_wait"} \/ Answered(r) => Made(r, "token")
      /\ Made(r, "api") => r.calls = <<"token", "api">>
      /\ AtMostOnce(r)
      /\ (GotToken(r) /\ r.pc \in {"send", "api_wait", "done"}) =>
            /\ r.seen.at <= r.wroteAt
            /\ r.wroteAt <= now
            /\ cached_token = Some(r.tresp.json.access_token)
            /\ token_expiry = Some(r.wroteAt + r.tresp.json.expires_in)

C2_Witness ==
  \E p \in workers :
    /\ th[p].ep = "barcode"
    /\ th[p].pc = "done"
    /\ th[p].calls = <<"token", "api">>
    /\ th[p].seen.exp # None
    /\ th[p].seen.tok # None
    /\ th[p].seen.at >= th[p].seen.exp[1]
    /\ GotToken(th[p])
    /\ cached_token # th[p].seen.tok
    /\ token_expiry # th[p].seen.exp

(***************************************************************************)
(* C3.  Whenever a handler sends its food API call, the clock not having   *)
(* advanced since the handler's validity check or, after a refresh, since  *)
(* the refresh wrote the cache, the cache holds a token and                *)
(* now < expiresAt, whatever 200 response the token endpoint gave.         *)
(***************************************************************************)
ClockStoodStill(r) ==
  \/ Made(r, "token") /\ r.wroteAt = now
  \/ ~Made(r, "token") /\ r.seen.at = now

C3_ValidTokenAtUpstreamCall ==
  [][\A p \in workers :
       (th[p].pc = "send" /\ th'[p].pc = "api_wait" /\ ClockStoodStill(th[p]))
         => HoldsValidToken(cached_token, token_expiry, now)]_vars

(***************************************************************************)
(* C4.  Barcode lookup, upstream 200 whose body holds an error object and  *)
(* no food_id object: 404 when the error code is 106 or the message        *)
(* contains "no item found" in any case; 400 with the upstream message as  *)
(* error and the error object as details otherwise.                        *)
(***************************************************************************)
\* the messages of BarcodeJsons that contain "no item found", case ignored
SaysNoItemFound(message) == message \in {"No item found", "No item found."}

ErrorObjectOnly(resp) ==
  /\ ~resp.fail
  /\ resp.status = 200
  /\ resp.parses
  /\ HasKey(resp.json, "error")
  /\ ~HasKey(resp.json, "food_id")

C4_BarcodeErrorObject ==
  \A p \in workers :
    LET r == th[p] IN
    (r.ep = "barcode" /\ Answered(r) /\ ErrorObjectOnly(r.aresp)) =>
      IF r.aresp.json["error"]["code"] = 106
           \/ SaysNoItemFound(r.aresp.json["error"]["message"])
        THEN r.out.status = 404
      ELSE /\ r.out.status = 400
           /\ r.out.body.error = r.aresp.json["error"]["message"]
           /\ r.out.body.details = r.aresp.json["error"]

(***************************************************************************)
(* C5.  /fatsecret_search with a JSON body without a non-empty query, the  *)
(* empty object included, answers 400 with an error message that mentions  *)
(* the query.                                                              *)
(***************************************************************************)
\* the validation messages that mention the query
MentionsQuery(message) == message \in {"No search query provided"}

C5_SearchWithoutQuery ==
  \A p \in workers :
    LET r == th[p] IN
    (r.ep = "search" /\ r.pc = "done" /\ r.data.present
       /\ Get(r.data.obj, "query", "") = "") =>
      /\ r.out.status = 400
      /\ MentionsQuery(r.out.body.error)

(***************************************************************************)
(* C6.  No retries.  As claimed: a request makes at most one token call    *)
(* and at most one food API call; after a failed token call (transport     *)
(* failure or non-200) the handler makes no food API call and answers with *)
(* the status and the body of the token failure; nothing follows a food    *)
(* API call.                                                               *)
(***************************************************************************)
\* what get_fatsecret_token answers for r's failed token call
TokenFailureResult(r) ==
  IF r.tresp.fail
    THEN Result(500, [error |-> "Exception during token fetch",
                      details |-> "ConnectionError"])
  ELSE Result(400, [error |-> "FatSecret token request failed: "
                                \o ToString(r.tresp.status),
                    details |-> IF ~r.tresp.parses THEN r.tresp.text
                                ELSE IF HasKey(r.tresp.errjson, "error_description")
                                  THEN r.tresp.errjson["error_description"]
                                ELSE r.tresp.errjson["error"]])

NoRetry(r) ==
  /\ AtMostOnce(r)
  /\ (Made(r, "api") => r.pc \in {"api_wait", "done"})
  /\ (r.ep \in ProxyEndpoints /\ TokenFailed(r)) => (~Made(r, "api") /\ r.pc = "done")

C6_NoRetryFailureBodyPropagated ==
  \A p \in workers :
    LET r == th[p] IN
    /\ NoRetry(r)
    /\ (r.ep \in ProxyEndpoints /\ TokenFailed(r)) => r.out = TokenFailureResult(r)

(***************************************************************************)
(* C6, amended.  As above, except that only search, food details and image *)
(* recognition answer with the body of the token failure; barcode lookup   *)
(* answers with the failure's status under a body of its own, whose error  *)
(* is "Failed to refresh token for barcode lookup" and whose details are   *)
(* the details of the token failure.                                       *)
(***************************************************************************)
C6_NoRetryFailureStatusPropagated ==
  \A p \in workers :
    LET r == th[p] IN
    /\ NoRetry(r)
    /\ (r.ep \in PassThroughEndpoints /\ TokenFailed(r)) =>
         r.out = TokenFailureResult(r)
    /\ (r.ep = "barcode" /\ TokenFailed(r)) =>
         /\ r.out.status = TokenFailureResult(r).status
         /\ r.out.body = [error |-> "Failed to refresh token for barcode lookup",
                          details |-> TokenFailureResult(r).body.details]

C6_Witness ==
  \E p \in workers :
    /\ th[p].ep = "barcode"
    /\ TokenFailed(th[p])
    /\ th[p].tresp.status = 401
    /\ th[p].pc = "done"
    /\ th[p].calls = <<"token">>
    /\ th[p].out.status = 400

(***************************************************************************)
(* C7.  Search, food details and image recognition answer by the food      *)
(* API's response alone: a 200 with a parseable body B gives 200 with      *)
(* body B; a status s other than 200 gives s with a body of exactly error  *)
(* and details, details being the raw upstream body.                       *)
(***************************************************************************)
C7_PassThroughMapping ==
  \A p \in workers :
    LET r == th[p] IN
    (r.ep \in PassThroughEndpoints /\ Answered(r) /\ ~r.aresp.fail) =>
      /\ (r.aresp.status = 200 /\ r.aresp.parses) =>
            r.out = [status |-> 200, body |-> r.aresp.json]
      /\ r.aresp.status # 200 =>
            /\ r.out.status = r.aresp.status
            /\ DOMAIN r.out.body = {"error", "details"}
            /\ r.out.body.details = r.aresp.text

C7_Witness ==
  \E p \in workers :
    /\ th[p].ep = "details"
    /\ Answered(th[p])
    /\ th[p].aresp.status = 200
    /\ th[p].aresp.json = FoodJson
    /\ th[p].out = [status |-> 200, body |-> FoodJson]

(***************************************************************************)
(* C8.  On every endpoint a transport failure of an upstream call, to the  *)
(* token endpoint or to the food API, ends the request with status 500     *)
(* and a body that has an error field.                                     *)
(***************************************************************************)
TransportFailed(r) ==
  \/ Made(r, "token") /\ r.pc # "tok_wait" /\ r.tresp.fail
  \/ Answered(r) /\ r.aresp.fail

C8_TransportFailureIs500 ==
  \A p \in workers :
    LET r == th[p] IN
    TransportFailed(r) =>
      /\ r.pc = "done"
      /\ r.out.status = 500
      /\ HasKey(r.out.body, "error")

C8_Witness ==
  \E p \in workers :
    /\ th[p].ep = "image"
    /\ th[p].calls = <<"token", "api">>
    /\ Answered(th[p])
    /\ th[p].aresp.fail
    /\ th[p].out.status = 500

(***************************************************************************)
(* C9.  On a cache hit /fatsecret_token answers, as expires_in, the whole  *)
(* seconds left to the cached token, expiresAt - now, whatever the         *)
(* lifetime stored, a day or more included.                                *)
(***************************************************************************)
C9_ExpiresInIsRemainingLifetime ==
  [][\A p \in workers :
       (/\ th[p].ep = "token"
        /\ th[p].pc = "tok_hit"
        /\ th'[p].pc = "done"
        /\ token_expiry[1] >= now)
         => th'[p].out.body.expires_in = token_expiry[1] - now]_vars

(***************************************************************************)
(* C10.  Two requests at a time, no lock on the cache: when both find the  *)
(* token absent or expired at line 35, both call the token endpoint.  The  *)
(* witness is a cache that pairs the token of one of the two responses     *)
(* with the expiry written from the other.                                 *)
(***************************************************************************)
PastTokenCheck(r) == r.pc \in {"tok_wait", "tok_write", "send", "api_wait", "done"}

C10_DuplicateRefresh ==
  \A p \in workers : \A q \in workers \ {p} :
    (/\ PastTokenCheck(th[p]) /\ SawInvalid(th[p])
     /\ PastTokenCheck(th[q]) /\ SawInvalid(th[q]))
      => Made(th[p], "token") /\ Made(th[q], "token")

C10_Witness ==
  \E p \in workers : \E q \in workers \ {p} :
    /\ SawInvalid(th[p]) /\ SawInvalid(th[q])
    /\ Made(th[p], "token") /\ Made(th[q], "token")
    /\ GotToken(th[p]) /\ GotToken(th[q])
    /\ th[p].wroteAt >= 0 /\ th[q].wroteAt >= 0
    /\ th[p].tresp.json.access_token # th[q].tresp.json.access_token
    /\ cached_token = Some(th[p].tresp.json.access_token)
    /\ token_expiry = Some(th[q].wroteAt + th[q].tresp.json.expires_in)
    /\ token_expiry # Some(th[p].wroteAt + th[p].tresp.json.expires_in)

(***************************************************************************)
(* C11.  The cache changes only on a successful refresh: when a request    *)
(* ends in an error response without having called the food API (a 400    *)
(* of the validation, a non-200 or a transport failure of the token        *)
(* endpoint, a 200 of the token endpoint whose access_token or expires_in  *)
(* is missing or malformed), cached_token and token_expiry are what they   *)
(* were before the request.                                                *)
(***************************************************************************)
\* this step ends p's request in an error response, no food API call made
EndsInTokenOrInputError(p) ==
  /\ th'[p] # th[p]
  /\ th'[p].pc = "done"
  /\ th'[p].out.status # 200
  /\ ~Made(th'[p], "api")

\* the globals before p's request: as its validity check read them, or, for
\* a request refused by the validation, as they are before this step
TokenBefore(p) == IF Checked(th'[p]) THEN th'[p].seen.tok ELSE cached_token
ExpiryBefore(p) == IF Checked(th'[p]) THEN th'[p].seen.exp ELSE token_expiry

C11_ErrorLeavesCacheUnchanged ==
  [][\A p \in workers :
       EndsInTokenOrInputError(p) =>
         /\ cached_token' = TokenBefore(p)
         /\ token_expiry' = ExpiryBefore(p)]_vars

====
